---- MODULE Spec2Model ----
(***************************************************************************)
(* Model of the GeminiBot session core: the SQLite history store           *)
(* (database.py), the per-user request throttle and the message handlers   *)
(* (main.py).                                                              *)
(*                                                                         *)
(* Updates are processed one at a time: main() builds the Application      *)
(* without concurrent_updates (main.py:454), so the library awaits each    *)
(* handler to completion before it dispatches the next update.  The        *)
(* variable cur is the update being handled and cur.pc its position.       *)
(* Time is counted in whole seconds: time.time() and SQLite's              *)
(* CURRENT_TIMESTAMP read the same system clock, the latter with a         *)
(* resolution of one second.                                               *)
(***************************************************************************)
EXTENDS Integers, Sequences, FiniteSets, TLC

\* ------------------------------------------------------------------ bounds
\* The clock's first value: the epoch time at which the process starts.  It
\* is far beyond any cooldown; 20 is the smallest value with that property.
StartTime == 20
\* Seconds of clock the handler specification (Spec) covers.
Horizon == 3
\* Seconds of clock the limiter specification (SpecLimiter) covers.
LimiterHorizon == 21
\* Rows the history table holds at most.
MaxRows == 2
\* Updates the application receives at most.
MaxUpdates == 2

Users == {42, 43}
\* The user the throttle is called for directly in SpecLimiter.
LimiterUsers == {42}

\* ------------------------------------------------------- program constants
DEFAULT_HISTORY_LIMIT == 12
MAX_FILE_SIZE == 20 * 1024 * 1024
DefaultCooldown == 2
\* defaultdict(float): the value a missing key reads as.
DefaultLastRequest == 0
AudioPollInterval == 2
VideoPollInterval == 5

COOLDOWNS ==
    [text |-> 3, fact |-> 5, photo |-> 10, voice |-> 15, video |-> 20, settings |-> 2]

\* The command types the handlers pass, and one that is not a key of COOLDOWNS.
CommandTypes == {"text", "fact", "photo", "voice", "video", "settings"}
AnyCommandType == CommandTypes \cup {"other"}

\* The other updates: the callback queries of the settings menu and /start.
CallbackKinds == {"set_limit", "main_menu", "settings_clear", "start"}

\* The handlers that come with a file, and those that go through the file API.
MediaKinds == {"photo", "voice", "video"}
AssetKinds == {"voice", "video"}
\* The handlers that read and extend the conversation history.
ChatKinds == {"text", "photo", "voice", "video"}

\* Declared sizes of an incoming file: at the ceiling and one byte above it.
FileSizes == {MAX_FILE_SIZE, MAX_FILE_SIZE + 1}

\* The numbers a set_limit_<n> callback may carry: one inside the range the menu
\* offers (up to 20), one above it and one below zero.  The data of a callback
\* query need not be the data of any button the bot has sent.
LimitPayloads == {-1, 1, 21}

\* The states the file API reports for an uploaded file.
FileStates == {"PROCESSING", "ACTIVE", "FAILED", "STATE_UNSPECIFIED"}

VARIABLES
    model,              \* main.py:88-92: TRUE when the Gemini model was loaded, FALSE for None
    now,                \* the system clock, in seconds
    user_last_request,  \* main.py:47: user_id -> time of the last request
    history,            \* table history, in rowid order
    user_settings,      \* table user_settings: user_id -> history_limit, for the users with a row
    cur,                \* the update being handled
    temp_file,          \* TRUE while the handler's temporary file is on disk
    remote_file,        \* TRUE while the handler's uploaded file exists remotely
    req0,               \* history: the table and the timestamps when cur was received
    updates,            \* the number of updates received so far
    admit,              \* the last direct call of is_user_on_cooldown, with its result
    marked_at,          \* history: user_id -> time of the last direct update_user_timestamp, or Never
    orphaned            \* the files of handlers that a crash of the process ended:
                        \* temp (on disk) and remote (at the service)

vars == <<model, now, user_last_request, history, user_settings, cur, temp_file,
          remote_file, req0, updates, admit, marked_at, orphaned>>

handlerVars == <<model, history, user_settings, cur, temp_file, remote_file, req0, updates,
                 orphaned>>
limiterVars == <<admit, marked_at>>

Never == 0 - 1
None == "None"

Min(a, b) == IF a < b THEN a ELSE b
Max(a, b) == IF a > b THEN a ELSE b

\* ------------------------------------------------------------ database.py
\* json.dumps / json.loads of a parts list: the stored column is a string that
\* wraps the list, and loading it gives the list back.
json_dumps(parts) == <<"json", parts>>
json_loads(text) == text[2]

\* get_history_limit: the user's row of user_settings, or the default.
get_history_limit(settings, user_id) ==
    IF user_id \in DOMAIN settings THEN settings[user_id] ELSE DEFAULT_HISTORY_LIMIT

\* Variant of set_history_limit: every row takes the new value.
set_history_limit_AllRows(settings, user_id, limit) ==
    [u \in DOMAIN settings \cup {user_id} |-> limit]

\* set_history_limit: INSERT OR REPLACE of the user's row; the value is stored as given.
set_history_limit(settings, user_id, limit) ==
    [u \in DOMAIN settings \cup {user_id} |-> IF u = user_id THEN limit ELSE settings[u]]

\* add_message_to_history: one INSERT; the timestamp column takes its default,
\* CURRENT_TIMESTAMP, and the rowid is the next one (the sequence's order).
add_message_to_history(h, user_id, role, parts, timestamp) ==
    Append(h, [user_id |-> user_id, role |-> role, parts |-> json_dumps(parts),
               timestamp |-> timestamp])

\* Variant of clear_history: the DELETE has no WHERE clause.
clear_history_AllUsers(h, user_id) ==
    <<>>

\* clear_history: DELETE of the user's rows.
clear_history(h, user_id) ==
    SelectSeq(h, LAMBDA r : r.user_id # user_id)

Reverse(s) == [i \in 1..Len(s) |-> s[Len(s) + 1 - i]]

\* SQL LIMIT: the first n rows; a negative LIMIT puts no bound on the rows.
SqlLimit(rows, n) ==
    IF n < 0 THEN rows ELSE SubSeq(rows, 1, Min(n, Len(rows)))

Perms(n) == {p \in [1..n -> 1..n] : \A i, j \in 1..n : i # j => p[i] # p[j]}

\* ORDER BY timestamp DESC: every arrangement of the rows with non-increasing
\* timestamps.  The query names no second sort key, so rows with equal
\* timestamps may come in any order.
OrderByTimestampDesc(rows) ==
    {[i \in 1..Len(rows) |-> rows[p[i]]] :
        p \in {q \in Perms(Len(rows)) :
                 \A i, j \in 1..Len(rows) :
                    i < j => rows[q[i]].timestamp >= rows[q[j]].timestamp}}

\* get_history: the results the query and the reversal can give.
get_history(h, settings, user_id) ==
    LET rows == SelectSeq(h, LAMBDA r : r.user_id = user_id)
        limit == get_history_limit(settings, user_id)
        Turn(r) == [role |-> r.role, parts |-> json_loads(r.parts)]
    IN  {[i \in 1..Len(fetched) |-> Turn(Reverse(fetched)[i])] :
            fetched \in {SqlLimit(sorted, limit) : sorted \in OrderByTimestampDesc(rows)}}

\* ---------------------------------------------------------------- throttle
\* COOLDOWNS.get(command_type, 2)
CooldownPeriod(command_type) ==
    IF command_type \in DOMAIN COOLDOWNS THEN COOLDOWNS[command_type] ELSE DefaultCooldown

\* Variant of is_user_on_cooldown: the default period is used for every
\* command type.
is_user_on_cooldown_DefaultPeriod(last, t, user_id, command_type) ==
    t - last[user_id] < DefaultCooldown

\* Variant of is_user_on_cooldown: the comparison is <= instead of <.
is_user_on_cooldown_Inclusive(last, t, user_id, command_type) ==
    t - last[user_id] <= CooldownPeriod(command_type)

\* is_user_on_cooldown: TRUE when the time since the user's last request is
\* less than the command type's period.  It assigns nothing.
is_user_on_cooldown(last, t, user_id, command_type) ==
    t - last[user_id] < CooldownPeriod(command_type)

\* Variant of update_user_timestamp: the time is stored under every key.
update_user_timestamp_AllKeys(last, t, user_id) ==
    [u \in DOMAIN last |-> t]

\* Variant of update_user_timestamp: nothing is stored.
update_user_timestamp_Stale(last, t, user_id) ==
    last

\* update_user_timestamp: user_last_request[user_id] = time.time()
update_user_timestamp(last, t, user_id) ==
    [last EXCEPT ![user_id] = t]

\* ---------------------------------------------------------------- handlers
\* The update being handled.  pc is the handler's position; the fields from
\* checked on record what the handler has done so far.
NoReq ==
    [pc |-> "idle", user |-> 42, kind |-> "none", file_size |-> 0,
     limit |-> 0,               \* the number a set_limit_<n> callback carries
     file_path |-> FALSE,       \* file_path is assigned (not None)
     gemini_file |-> None,      \* None, or the state of the file object held
     user_history |-> <<>>,     \* the result of get_history
     checked |-> FALSE,         \* is_user_on_cooldown was called
     on_cooldown |-> FALSE,     \* its result
     marked |-> FALSE,          \* update_user_timestamp was called
     nRead |-> 0, nInsert |-> 0, nUpload |-> 0, nInfer |-> 0, nDelete |-> 0,
     infer |-> "none",          \* the inference call: none, ok, failed
     unlink |-> "none",         \* file_path.unlink(): none, ok, raised
     cancelled |-> FALSE,       \* the handler's task was cancelled
     reply |-> "none"]          \* the last reply: none, menu, too_big, answer, failure
                                \* (delivered) or failure_raised (its send raised)

\* The last direct call of is_user_on_cooldown(user, command_type) that no
\* update_user_timestamp(user) has followed: the clock at the call, the result,
\* and whether the call before it had the same arguments, was made less than the
\* command type's period earlier and was not followed by a mark of the user.
NoAdmit ==
    [called |-> FALSE, user |-> 42, command_type |-> "text", t |-> 0,
     on_cooldown |-> FALSE, repeated |-> FALSE]

NoSnapshot == [history |-> <<>>, last |-> [u \in Users |-> DefaultLastRequest]]

\* Where a handler goes when it returns or its except clause ends: voice and
\* video_note have a finally clause, the others return.
ExitPc(kind) == IF kind \in AssetKinds THEN "finally" ELSE "done"

\* The first awaited step of a handler body once the request is committed.
AfterNotify(kind) ==
    CASE kind = "text" -> "history"
      [] kind = "fact" -> "infer"
      [] kind = "photo" -> "download"
      [] OTHER -> "get_file"

\* Variant of AfterState: the check for FAILED after the loop is missing.
AfterState_IgnoreFailed(st) ==
    IF st = "PROCESSING" THEN "sleep" ELSE "history"

\* After upload_file or get_file returned a file in state st: the polling loop
\* goes on while the state is PROCESSING; FAILED raises; any other state goes on
\* to the inference call.
AfterState(st) ==
    CASE st = "PROCESSING" -> "sleep"
      [] st = "FAILED" -> "except"
      [] OTHER -> "history"

PollInterval(kind) == IF kind = "voice" THEN AudioPollInterval ELSE VideoPollInterval

\* The parts stored as the user's turn (the message text, the caption or the
\* fixed label of a voice or video message: one text, not told apart here) and
\* as the model's turn.
UserParts(kind) == <<[text |-> "user_text"]>>
ModelParts == <<[text |-> "full_response_text"]>>

Init ==
    /\ model \in BOOLEAN
    /\ now = StartTime
    /\ user_last_request = [u \in Users |-> DefaultLastRequest]
    /\ history = <<>>
    /\ user_settings = <<>>
    /\ cur = NoReq
    /\ temp_file = FALSE
    /\ remote_file = FALSE
    /\ req0 = NoSnapshot
    /\ updates = 0
    /\ admit = NoAdmit
    /\ marked_at = [u \in Users |-> Never]
    /\ orphaned = [temp |-> FALSE, remote |-> FALSE]

\* A handler is called with an update while no handler runs; Arrived holds of
\* what every handler's first step leaves unchanged.
Arrived ==
    /\ cur.pc = "idle"
    /\ updates < MaxUpdates
    /\ updates' = updates + 1
    /\ req0' = [history |-> history, last |-> user_last_request]
    /\ UNCHANGED <<model, now, temp_file, remote_file>>
    /\ UNCHANGED <<limiterVars, orphaned>>

\* The application dispatches an update to its handler: main() returns before
\* polling starts unless the model was loaded.
Dispatched ==
    /\ model
    /\ Arrived

\* Variant of HandlerHead: the size guard compares with >= instead of >.
HandlerHead_SizeInclusive(u, c, file_size) ==
    LET on == is_user_on_cooldown(user_last_request, now, u, c)
        seen == [NoReq EXCEPT !.user = u, !.kind = c, !.checked = TRUE,
                              !.on_cooldown = on]
    IN  IF on
          THEN /\ cur' = [seen EXCEPT !.pc = "done"]
               /\ UNCHANGED user_last_request
          ELSE IF c \in MediaKinds /\ file_size >= MAX_FILE_SIZE
                 THEN /\ cur' = [seen EXCEPT !.pc = "too_big", !.file_size = file_size]
                      /\ UNCHANGED user_last_request
                 ELSE /\ user_last_request' =
                            update_user_timestamp(user_last_request, now, u)
                      /\ cur' = [seen EXCEPT
                                   !.file_size = IF c \in MediaKinds THEN file_size ELSE 0,
                                   !.marked = TRUE,
                                   !.reply = IF c = "settings" THEN "menu" ELSE "none",
                                   !.pc = IF c = "settings" THEN "done"
                                          ELSE IF ~model THEN ExitPc(c)
                                          ELSE "notify"]

\* Variant of HandlerHead: the request is recorded before the size guard.
HandlerHead_MarkFirst(u, c, file_size) ==
    LET on == is_user_on_cooldown(user_last_request, now, u, c)
        seen == [NoReq EXCEPT !.user = u, !.kind = c, !.checked = TRUE,
                              !.on_cooldown = on]
    IN  IF on
          THEN /\ cur' = [seen EXCEPT !.pc = "done"]
               /\ UNCHANGED user_last_request
          ELSE /\ user_last_request' = update_user_timestamp(user_last_request, now, u)
               /\ cur' = IF c \in MediaKinds /\ file_size > MAX_FILE_SIZE
                           THEN [seen EXCEPT !.pc = "too_big", !.marked = TRUE,
                                             !.file_size = file_size]
                           ELSE [seen EXCEPT
                                   !.file_size = IF c \in MediaKinds THEN file_size ELSE 0,
                                   !.marked = TRUE,
                                   !.reply = IF c = "settings" THEN "menu" ELSE "none",
                                   !.pc = IF c = "settings" THEN "done"
                                          ELSE IF ~model THEN ExitPc(c)
                                          ELSE "notify"]

\* Variant of HandlerHead: the return after a positive cooldown check is missing.
HandlerHead_NoReturn(u, c, file_size) ==
    /\ user_last_request' = update_user_timestamp(user_last_request, now, u)
    /\ cur' = [NoReq EXCEPT !.user = u, !.kind = c, !.checked = TRUE,
                            !.on_cooldown =
                                is_user_on_cooldown(user_last_request, now, u, c),
                            !.marked = TRUE,
                            !.pc = IF c = "settings" THEN "done" ELSE "notify"]

\* The synchronous head of a message handler of command type c for user u: the
\* cooldown check, the size guard of the media handlers (file_size is the
\* declared size), update_user_timestamp and the check of model (settings_menu
\* has no check of model: it shows the menu).
HandlerHead(u, c, file_size) ==
    LET on == is_user_on_cooldown(user_last_request, now, u, c)
        seen == [NoReq EXCEPT !.user = u, !.kind = c, !.checked = TRUE,
                              !.on_cooldown = on]
    IN  IF on
          THEN /\ cur' = [seen EXCEPT !.pc = "done"]
               /\ UNCHANGED user_last_request
          ELSE IF c \in MediaKinds /\ file_size > MAX_FILE_SIZE
                 THEN /\ cur' = [seen EXCEPT !.pc = "too_big", !.file_size = file_size]
                      /\ UNCHANGED user_last_request
                 ELSE /\ user_last_request' =
                            update_user_timestamp(user_last_request, now, u)
                      /\ cur' = [seen EXCEPT
                                   !.file_size = IF c \in MediaKinds THEN file_size ELSE 0,
                                   !.marked = TRUE,
                                   !.reply = IF c = "settings" THEN "menu" ELSE "none",
                                   !.pc = IF c = "settings" THEN "done"
                                          ELSE IF ~model THEN ExitPc(c)
                                          ELSE "notify"]

\* A text message, the fact button, a photo, a voice message, a video note or
\* /settings arrives and its handler runs up to its first await.
CheckCooldown ==
    /\ Dispatched
    /\ \E u \in Users, c \in CommandTypes, file_size \in FileSizes :
         HandlerHead(u, c, file_size)
    /\ UNCHANGED <<history, user_settings>>

\* The reply that the file is too large, then return.
ReplyTooBig ==
    /\ cur.pc = "too_big"
    /\ \E ok \in BOOLEAN :
         cur' = IF ok THEN [cur EXCEPT !.reply = "too_big", !.pc = ExitPc(cur.kind)]
                      ELSE [cur EXCEPT !.pc = "except"]
    /\ UNCHANGED <<model, now, user_last_request, history, user_settings, temp_file,
                   remote_file, req0, updates>>
    /\ UNCHANGED <<limiterVars, orphaned>>

\* send_chat_action (and, for a video note, the reply that processing began).
Notify ==
    /\ cur.pc = "notify"
    /\ \E ok \in BOOLEAN :
         cur' = [cur EXCEPT !.pc = IF ok THEN AfterNotify(cur.kind) ELSE "except"]
    /\ UNCHANGED <<model, now, user_last_request, history, user_settings, temp_file,
                   remote_file, req0, updates>>
    /\ UNCHANGED <<limiterVars, orphaned>>

\* voice.get_file() / video_note.get_file(), then the assignment of file_path.
GetFile ==
    /\ cur.pc = "get_file"
    /\ \E ok \in BOOLEAN :
         cur' = IF ok THEN [cur EXCEPT !.file_path = TRUE, !.pc = "download"]
                      ELSE [cur EXCEPT !.pc = "except"]
    /\ UNCHANGED <<model, now, user_last_request, history, user_settings, temp_file,
                   remote_file, req0, updates>>
    /\ UNCHANGED <<limiterVars, orphaned>>

\* handle_photo: get_file, download_as_bytearray and Image.open.
DownloadPhoto ==
    /\ cur.pc = "download"
    /\ cur.kind = "photo"
    /\ \E ok \in BOOLEAN :
         cur' = [cur EXCEPT !.pc = IF ok THEN "history" ELSE "except"]
    /\ UNCHANGED <<model, now, user_last_request, history, user_settings, temp_file,
                   remote_file, req0, updates>>
    /\ UNCHANGED <<limiterVars, orphaned>>

\* download_to_drive(file_path): on success the file is on disk; a failed
\* download may or may not leave a file behind.
DownloadToDrive ==
    /\ cur.pc = "download"
    /\ cur.kind \in AssetKinds
    /\ \E ok \in BOOLEAN, left \in BOOLEAN :
         /\ ok => left
         /\ temp_file' = left
         /\ cur' = [cur EXCEPT !.pc = IF ok THEN "upload" ELSE "except"]
    /\ UNCHANGED <<model, now, user_last_request, history, user_settings, remote_file,
                   req0, updates>>
    /\ UNCHANGED <<limiterVars, orphaned>>

\* genai.upload_file: the returned file object is assigned to gemini_file; a
\* raised exception leaves gemini_file None.
Upload ==
    /\ cur.pc = "upload"
    /\ \E ok \in BOOLEAN, st \in FileStates :
         IF ok
           THEN /\ cur' = [cur EXCEPT !.gemini_file = st, !.nUpload = @ + 1,
                                      !.pc = AfterState(st)]
                /\ remote_file' = TRUE
           ELSE /\ cur' = [cur EXCEPT !.nUpload = @ + 1, !.pc = "except"]
                /\ UNCHANGED remote_file
    /\ UNCHANGED <<model, now, user_last_request, history, user_settings, temp_file, req0,
                   updates>>
    /\ UNCHANGED <<limiterVars, orphaned>>

\* time.sleep(2) / time.sleep(5) in the polling loop: the clock moves on by the
\* interval (as far as the horizon reaches).
Sleep ==
    /\ cur.pc = "sleep"
    /\ now' = Min(now + PollInterval(cur.kind), StartTime + Horizon)
    /\ cur' = [cur EXCEPT !.pc = "poll"]
    /\ UNCHANGED <<model, user_last_request, history, user_settings, temp_file,
                   remote_file, req0, updates>>
    /\ UNCHANGED <<limiterVars, orphaned>>

\* genai.get_file in the polling loop: the service reports any state; a raised
\* exception leaves gemini_file as it was.
Poll ==
    /\ cur.pc = "poll"
    /\ \E ok \in BOOLEAN, st \in FileStates :
         cur' = IF ok THEN [cur EXCEPT !.gemini_file = st, !.pc = AfterState(st)]
                      ELSE [cur EXCEPT !.pc = "except"]
    /\ UNCHANGED <<model, now, user_last_request, history, user_settings, temp_file,
                   remote_file, req0, updates>>
    /\ UNCHANGED <<limiterVars, orphaned>>

\* db.get_history(user_id) and model.start_chat(history=user_history).
ReadHistory ==
    /\ cur.pc = "history"
    /\ \E ok \in BOOLEAN, w \in get_history(history, user_settings, cur.user) :
         cur' = IF ok THEN [cur EXCEPT !.user_history = w, !.nRead = @ + 1, !.pc = "infer"]
                      ELSE [cur EXCEPT !.nRead = @ + 1, !.pc = "except"]
    /\ UNCHANGED <<model, now, user_last_request, history, user_settings, temp_file,
                   remote_file, req0, updates>>
    /\ UNCHANGED <<limiterVars, orphaned>>

\* Variant of Infer: the user's turn is stored before the call is made.
Infer_StoreUserTurnFirst ==
    /\ cur.pc = "infer"
    /\ Len(history) < MaxRows
    /\ history' = add_message_to_history(history, cur.user, "user",
                                         UserParts(cur.kind), now)
    /\ \E ok \in BOOLEAN :
         cur' = IF ok THEN [cur EXCEPT !.infer = "ok", !.nInfer = @ + 1, !.pc = "reply"]
                      ELSE [cur EXCEPT !.infer = "failed", !.nInfer = @ + 1,
                                       !.pc = "except"]
    /\ UNCHANGED <<model, now, user_last_request, user_settings, temp_file,
                   remote_file, req0, updates>>
    /\ UNCHANGED <<limiterVars, orphaned>>

\* chat.send_message_async(...) and response.text.
Infer ==
    /\ cur.pc = "infer"
    /\ \E ok \in BOOLEAN :
         cur' = IF ok THEN [cur EXCEPT !.infer = "ok", !.nInfer = @ + 1,
                                       !.pc = IF cur.kind = "fact" THEN "reply"
                                              ELSE "insert_user"]
                      ELSE [cur EXCEPT !.infer = "failed", !.nInfer = @ + 1,
                                       !.pc = "except"]
    /\ UNCHANGED <<model, now, user_last_request, history, user_settings, temp_file,
                   remote_file, req0, updates>>
    /\ UNCHANGED <<limiterVars, orphaned>>

\* Variant of InsertUser: the reply's turn is stored where the user's belongs.
InsertUser_ModelFirst ==
    /\ cur.pc = "insert_user"
    /\ \E ok \in BOOLEAN :
         IF ok /\ Len(history) < MaxRows
           THEN /\ history' = add_message_to_history(history, cur.user, "model",
                                                     ModelParts, now)
                /\ cur' = [cur EXCEPT !.nInsert = @ + 1, !.pc = "insert_model"]
           ELSE /\ cur' = [cur EXCEPT !.pc = "except"]
                /\ UNCHANGED history
    /\ UNCHANGED <<model, now, user_last_request, user_settings, temp_file, remote_file,
                   req0, updates>>
    /\ UNCHANGED <<limiterVars, orphaned>>

\* db.add_message_to_history(user_id, "user", ...): the insert commits, or it
\* raises (it always raises once the table holds MaxRows rows: the disk is full).
InsertUser ==
    /\ cur.pc = "insert_user"
    /\ \E ok \in BOOLEAN :
         IF ok /\ Len(history) < MaxRows
           THEN /\ history' = add_message_to_history(history, cur.user, "user",
                                                     UserParts(cur.kind), now)
                /\ cur' = [cur EXCEPT !.nInsert = @ + 1, !.pc = "insert_model"]
           ELSE /\ cur' = [cur EXCEPT !.pc = "except"]
                /\ UNCHANGED history
    /\ UNCHANGED <<model, now, user_last_request, user_settings, temp_file, remote_file,
                   req0, updates>>
    /\ UNCHANGED <<limiterVars, orphaned>>

\* db.add_message_to_history(user_id, "model", ...), a commit of its own.
InsertModel ==
    /\ cur.pc = "insert_model"
    /\ \E ok \in BOOLEAN :
         IF ok /\ Len(history) < MaxRows
           THEN /\ history' = add_message_to_history(history, cur.user, "model",
                                                     ModelParts, now)
                /\ cur' = [cur EXCEPT !.nInsert = @ + 1, !.pc = "reply"]
           ELSE /\ cur' = [cur EXCEPT !.pc = "except"]
                /\ UNCHANGED history
    /\ UNCHANGED <<model, now, user_last_request, user_settings, temp_file, remote_file,
                   req0, updates>>
    /\ UNCHANGED <<limiterVars, orphaned>>

\* send_long_message(update, full_response_text).
Reply ==
    /\ cur.pc = "reply"
    /\ \E ok \in BOOLEAN :
         cur' = IF ok THEN [cur EXCEPT !.reply = "answer", !.pc = ExitPc(cur.kind)]
                      ELSE [cur EXCEPT !.pc = "except"]
    /\ UNCHANGED <<model, now, user_last_request, history, user_settings, temp_file,
                   remote_file, req0, updates>>
    /\ UNCHANGED <<limiterVars, orphaned>>

\* The except clause: the failure reply is sent; the send delivers it or raises.
Except ==
    /\ cur.pc = "except"
    /\ \E ok \in BOOLEAN :
         cur' = [cur EXCEPT !.reply = IF ok THEN "failure" ELSE "failure_raised",
                            !.pc = ExitPc(cur.kind)]
    /\ UNCHANGED <<model, now, user_last_request, history, user_settings, temp_file,
                   remote_file, req0, updates>>
    /\ UNCHANGED <<limiterVars, orphaned>>

\* Variant of Finally: the cleanup stands at the end of the try block, so it
\* runs only when the answer was delivered.
Finally_OnSuccessOnly ==
    /\ cur.pc = "finally"
    /\ temp_file' = IF cur.reply = "answer" THEN FALSE ELSE temp_file
    /\ remote_file' = IF cur.reply = "answer" THEN FALSE ELSE remote_file
    /\ cur' = [cur EXCEPT !.nDelete = IF cur.reply = "answer" THEN @ + 1 ELSE @,
                          !.pc = "done"]
    /\ UNCHANGED <<model, now, user_last_request, history, user_settings, req0,
                   updates>>
    /\ UNCHANGED <<limiterVars, orphaned>>

\* The finally clause of handle_voice and handle_video_note: unlink when
\* file_path is set and the file exists, then delete_file when gemini_file is
\* set.  An unlink that raises ends the clause before delete_file; a
\* delete_file that raises leaves the remote file in place.
Finally ==
    /\ cur.pc = "finally"
    /\ \E unlink_ok \in BOOLEAN, delete_ok \in BOOLEAN :
         IF cur.file_path /\ temp_file /\ ~unlink_ok
           THEN /\ cur' = [cur EXCEPT !.unlink = "raised", !.pc = "done"]
                /\ UNCHANGED <<temp_file, remote_file>>
           ELSE /\ temp_file' = IF cur.file_path THEN FALSE ELSE temp_file
                /\ remote_file' = IF cur.gemini_file # None /\ delete_ok
                                    THEN FALSE ELSE remote_file
                /\ cur' = [cur EXCEPT
                             !.unlink = IF cur.file_path /\ temp_file THEN "ok" ELSE @,
                             !.nDelete = IF cur.gemini_file # None THEN @ + 1 ELSE @,
                             !.pc = "done"]
    /\ UNCHANGED <<model, now, user_last_request, history, user_settings, req0,
                   updates>>
    /\ UNCHANGED <<limiterVars, orphaned>>

\* button_callback_handler, set_limit_<n>: the limit is stored as parsed, then
\* settings_menu runs for the callback query (no cooldown check, timestamp updated).
CallbackSetLimit ==
    /\ Dispatched
    /\ \E u \in Users, limit \in LimitPayloads :
         /\ user_settings' = set_history_limit(user_settings, u, limit)
         /\ user_last_request' = update_user_timestamp(user_last_request, now, u)
         /\ cur' = [NoReq EXCEPT !.pc = "done", !.user = u, !.kind = "set_limit",
                                 !.limit = limit, !.marked = TRUE, !.reply = "menu"]
    /\ UNCHANGED history

\* button_callback_handler, settings_main_menu: settings_menu for the callback query.
CallbackMainMenu ==
    /\ Dispatched
    /\ \E u \in Users :
         /\ user_last_request' = update_user_timestamp(user_last_request, now, u)
         /\ cur' = [NoReq EXCEPT !.pc = "done", !.user = u, !.kind = "main_menu",
                                 !.marked = TRUE, !.reply = "menu"]
    /\ UNCHANGED <<history, user_settings>>

\* button_callback_handler, settings_clear, and the /start command: clear_history.
ClearHistory ==
    /\ Dispatched
    /\ \E u \in Users, kind \in {"settings_clear", "start"} :
         /\ history' = clear_history(history, u)
         /\ cur' = [NoReq EXCEPT !.pc = "done", !.user = u, !.kind = kind]
    /\ UNCHANGED <<user_last_request, user_settings>>

\* The handler has returned; the application takes up the next update.
Return ==
    /\ cur.pc = "done"
    /\ cur' = NoReq
    /\ req0' = NoSnapshot
    /\ UNCHANGED <<model, now, user_last_request, history, user_settings, temp_file,
                   remote_file, updates>>
    /\ UNCHANGED <<limiterVars, orphaned>>

\* A second passes: between updates, while the inference call is awaited, and
\* between the two inserts (the other steps take no time of their own; the
\* polling loop's sleeps are steps of the handler).
Tick ==
    /\ cur.pc \in {"idle", "infer", "insert_model"}
    /\ now < StartTime + Horizon
    /\ now' = now + 1
    /\ UNCHANGED user_last_request
    /\ UNCHANGED handlerVars
    /\ UNCHANGED limiterVars

\* An update arrives and its handler starts.
DispatchStep == CheckCooldown \/ CallbackSetLimit \/ CallbackMainMenu \/ ClearHistory

\* The steps of the handler in progress.
HandlerStep ==
    \/ ReplyTooBig \/ Notify \/ GetFile \/ DownloadPhoto
    \/ DownloadToDrive \/ Upload \/ Sleep \/ Poll \/ ReadHistory \/ Infer
    \/ InsertUser \/ InsertModel \/ Reply \/ Except \/ Finally \/ Return

Next == DispatchStep \/ HandlerStep \/ Tick

Spec == Init /\ [][Next]_vars

\* The event loop runs the handler in progress until it returns.
LiveSpec == Init /\ [][Next]_vars /\ WF_vars(HandlerStep)

\* ------------------------------------------------ handlers and cancellation
\* The awaits of the handlers: where a task can be cancelled.  get_history, the
\* inserts, upload_file, time.sleep and genai.get_file are blocking calls and
\* the finally clause awaits nothing.
SuspensionPoints ==
    {"too_big", "notify", "get_file", "download", "infer", "reply", "except"}

\* Variant of Cancel: the cancelled handler ends where it stands.
Cancel_SkipsFinally ==
    /\ cur.pc \in SuspensionPoints
    /\ \E left \in BOOLEAN :
         temp_file' = IF cur.pc = "download" /\ cur.kind \in AssetKinds
                        THEN left ELSE temp_file
    /\ cur' = [cur EXCEPT !.cancelled = TRUE, !.pc = "done"]
    /\ UNCHANGED <<model, now, user_last_request, history, user_settings,
                   remote_file, req0, updates>>
    /\ UNCHANGED <<limiterVars, orphaned>>

\* The platform cancels the handler's task at an await: CancelledError is
\* raised there.  It passes `except Exception` where it derives from
\* BaseException (Python 3.8 and later) and is caught by it where it derives
\* from Exception (Python 3.7); raised inside the except clause it leaves the
\* clause.  A cancelled download may leave a file behind.
Cancel ==
    /\ cur.pc \in SuspensionPoints
    /\ \E caught \in BOOLEAN, left \in BOOLEAN :
         /\ temp_file' = IF cur.pc = "download" /\ cur.kind \in AssetKinds
                           THEN left ELSE temp_file
         /\ cur' = [cur EXCEPT !.cancelled = TRUE,
                               !.pc = IF caught /\ cur.pc # "except"
                                        THEN "except" ELSE ExitPc(cur.kind)]
    /\ UNCHANGED <<model, now, user_last_request, history, user_settings,
                   remote_file, req0, updates>>
    /\ UNCHANGED <<limiterVars, orphaned>>

NextCancel == CheckCooldown \/ HandlerStep \/ Cancel

SpecCancel == Init /\ [][NextCancel]_vars

\* ------------------------------------------------ handlers, crash and restart
\* The process dies while a handler runs (kill -9, power loss): no except or
\* finally clause runs.  What is in memory is lost (user_last_request, the
\* handler's locals); the database, the temporary file of the handler, if it is
\* on disk (a download under way may have left one), and its uploaded file stay.
Crash ==
    /\ cur.pc \notin {"idle", "done", "crashed"}
    /\ \E left \in BOOLEAN :
         orphaned' =
             [temp |-> \/ orphaned.temp
                       \/ /\ cur.kind \in AssetKinds
                          /\ cur.file_path
                          /\ IF cur.pc = "download" THEN left ELSE temp_file,
              remote |-> \/ orphaned.remote
                         \/ (cur.gemini_file # None /\ remote_file)]
    /\ temp_file' = FALSE
    /\ remote_file' = FALSE
    /\ cur' = [NoReq EXCEPT !.pc = "crashed"]
    /\ req0' = NoSnapshot
    /\ user_last_request' = [u \in Users |-> DefaultLastRequest]
    /\ UNCHANGED <<model, now, history, user_settings, updates>>
    /\ UNCHANGED limiterVars

\* The process is started again: the module is loaded, init_db() creates the
\* tables if they are missing, main() starts polling.  Nothing looks into
\* temp_audio or temp_video or lists the uploaded files.
Restart ==
    /\ cur.pc = "crashed"
    /\ cur' = NoReq
    /\ UNCHANGED <<model, now, user_last_request, history, user_settings, temp_file,
                   remote_file, req0, updates>>
    /\ UNCHANGED <<limiterVars, orphaned>>

NextCrash == CheckCooldown \/ HandlerStep \/ Crash \/ Restart

\* The event loop runs the handler in progress until it returns, and a process
\* that died is started again.
SpecCrash ==
    Init /\ [][NextCrash]_vars /\ WF_vars(HandlerStep) /\ WF_vars(Restart)

\* ------------------------------------------- the handlers without a model
\* The module was loaded without a model (main.py:90-92) and a message handler
\* is called all the same, not through main(): each handler's own
\* `if not model: return` is what then runs.
DirectCall ==
    /\ Arrived
    /\ \E u \in Users, c \in CommandTypes, file_size \in FileSizes :
         HandlerHead(u, c, file_size)
    /\ UNCHANGED <<history, user_settings>>

NextDisabled == DirectCall \/ ReplyTooBig \/ Except \/ Finally \/ Return \/ Tick

InitDisabled == Init /\ model = FALSE

SpecDisabled == InitDisabled /\ [][NextDisabled]_vars

\* ------------------------------------------------- the throttle on its own
\* is_user_on_cooldown and update_user_timestamp called directly, in any order,
\* for any command type, as the seconds pass.  The handlers call them
\* in each of these orders: a check alone (a rejected or an oversize request), a
\* check and then a mark (a committed request), a mark alone (the settings menu
\* opened from a callback query).
LimiterCheck ==
    /\ \E u \in LimiterUsers, c \in AnyCommandType :
         admit' = [called |-> TRUE, user |-> u, command_type |-> c, t |-> now,
                   on_cooldown |-> is_user_on_cooldown(user_last_request, now, u, c),
                   repeated |-> /\ admit.called
                                /\ admit.user = u
                                /\ admit.command_type = c
                                /\ now - admit.t < CooldownPeriod(c)]
    /\ UNCHANGED <<now, user_last_request, marked_at>>
    /\ UNCHANGED handlerVars

LimiterMark ==
    /\ \E u \in LimiterUsers :
         /\ user_last_request' = update_user_timestamp(user_last_request, now, u)
         /\ marked_at' = [marked_at EXCEPT ![u] = now]
         /\ admit' = IF admit.user = u THEN NoAdmit ELSE admit
    /\ UNCHANGED now
    /\ UNCHANGED handlerVars

LimiterTick ==
    /\ now < StartTime + LimiterHorizon
    /\ now' = now + 1
    /\ UNCHANGED <<user_last_request, admit, marked_at>>
    /\ UNCHANGED handlerVars

NextLimiter == LimiterCheck \/ LimiterMark \/ LimiterTick

InitLimiter == Init /\ model = TRUE

SpecLimiter == InitLimiter /\ [][NextLimiter]_vars

\* ================================================================== claims
UserRows(h, user_id) == SelectSeq(h, LAMBDA r : r.user_id = user_id)

\* The last min(N, L) turns of the user in insertion order, oldest first.
LastTurns(h, settings, user_id) ==
    LET rows == UserRows(h, user_id)
        n == Len(rows)
        k == Min(n, get_history_limit(settings, user_id))
    IN  [i \in 1..k |-> [role |-> rows[n - k + i].role,
                         parts |-> json_loads(rows[n - k + i].parts)]]

\* The handler of a conversation request holds the result of get_history: the
\* table has not changed since the read.
HoldsWindow == cur.pc = "infer" /\ cur.kind \in ChatKinds

\* C1: get_history(U) returns the most recently appended turns of U in
\* insertion order, oldest first, also when turns carry the same timestamp
\* (stated for the limits that are not negative).
C1_WindowInInsertionOrder ==
    (HoldsWindow /\ get_history_limit(user_settings, cur.user) >= 0)
        => cur.user_history = LastTurns(history, user_settings, cur.user)

\* C2: get_history(U) returns exactly min(N, L) turns, N the number of turns
\* stored for U and L the limit last stored for U (12 when none was stored),
\* and never more than L turns.
C2_WindowSize ==
    HoldsWindow
        => LET n == Len(UserRows(history, cur.user))
               l == get_history_limit(user_settings, cur.user)
           IN  /\ Len(cur.user_history) = Min(n, l)
               /\ Len(cur.user_history) <= l

\* C3 as stated: recording a request of user U in one category does not change
\* the outcome of a cooldown check of U in a different category.
C3_MarkLeavesOtherCategories ==
    [][(cur.pc = "idle" /\ cur'.checked /\ cur'.marked)
          => \A c \in CommandTypes \ {cur'.kind} :
                is_user_on_cooldown(user_last_request', now', cur'.user, c)
                    = is_user_on_cooldown(user_last_request, now, cur'.user, c)]_vars

\* C3 as amended: the cooldown state is kept per user.  A step changes the
\* last-request time of no user but the one whose update is being handled, and
\* only when its handler records the request; that user is then on cooldown in
\* every category, and the outcome of a check of any other user is unchanged.
C3_MarkIsPerUser ==
    [][\A v \in Users :
          IF user_last_request'[v] # user_last_request[v]
            THEN /\ v = cur'.user
                 /\ cur'.marked
                 /\ user_last_request'[v] = now
                 /\ \A c \in CommandTypes :
                       is_user_on_cooldown(user_last_request', now', v, c)
            ELSE \A c \in CommandTypes :
                    is_user_on_cooldown(user_last_request', now, v, c)
                        = is_user_on_cooldown(user_last_request, now, v, c)]_vars

\* A voice request was recorded: a text request of the same user would now be
\* rejected, one of the other user would not.
C3_Witness ==
    /\ cur.kind = "voice"
    /\ cur.checked
    /\ cur.marked
    /\ is_user_on_cooldown(user_last_request, now, cur.user, "text")
    /\ \E v \in Users \ {cur.user} :
          ~is_user_on_cooldown(user_last_request, now, v, "text")

\* C4: when a voice or video-note handler has exited after file_path was
\* assigned, whichever step of the try block ended it (the reply sent, a
\* download, the upload, a status poll, a FAILED state, the inference call, a
\* history insert or the reply raising), the temporary file is not on disk and
\* delete_file was invoked once if a file object was ever obtained and not at
\* all otherwise.  (The exits the claim lists; an unlink that itself raises is
\* none of them.)
C4_CleanupOnExit ==
    (cur.pc = "done" /\ cur.kind \in AssetKinds /\ cur.file_path
                     /\ cur.unlink # "raised")
        => /\ ~temp_file
           /\ cur.nDelete = IF cur.gemini_file # None THEN 1 ELSE 0

\* A voice handler has exited after get_file raised in the polling loop.
C4_Witness ==
    /\ cur.pc = "done"
    /\ cur.kind = "voice"
    /\ cur.file_path
    /\ cur.gemini_file = "PROCESSING"
    /\ cur.nInfer = 0
    /\ cur.unlink = "ok"
    /\ cur.nDelete = 1
    /\ ~temp_file

\* C5: every media request that begins uploading reaches the end of its handler.
C5_UploadLeadsToExit ==
    (cur.pc = "upload") ~> (cur.pc = "done")

\* C6: if the inference call of a request of user U failed, get_history(U)
\* gives what it gave before the request, and the request has inserted no turn.
C6_FailedInferenceKeepsHistory ==
    cur.infer = "failed"
        => /\ cur.nInsert = 0
           /\ UserRows(history, cur.user) = UserRows(req0.history, cur.user)
           /\ get_history(history, user_settings, cur.user)
                 = get_history(req0.history, user_settings, cur.user)

\* A text request of a user with two stored turns has ended after its
\* inference call failed.
C6_Witness ==
    /\ cur.pc = "done"
    /\ cur.kind = "text"
    /\ cur.infer = "failed"
    /\ Len(UserRows(history, cur.user)) = 2

\* C7: a request that has ended has inserted both of its turns or neither.
C7_BothTurnsOrNeither ==
    cur.pc = "done" => cur.nInsert \in {0, 2}

\* C8: a request rejected by the cooldown check has ended at once: no history
\* read, no insert, no upload, no inference call, no reply, no file of its
\* own, and every last-request time and the history table as they were.
C8_RejectedDoesNothing ==
    (cur.checked /\ cur.on_cooldown)
        => /\ cur.pc = "done"
           /\ ~cur.marked
           /\ cur.nRead = 0 /\ cur.nInsert = 0 /\ cur.nUpload = 0 /\ cur.nInfer = 0
           /\ cur.reply = "none"
           /\ ~cur.file_path /\ cur.gemini_file = None /\ cur.nDelete = 0
           /\ user_last_request = req0.last
           /\ history = req0.history

\* A voice request was rejected by the cooldown check.
C8_Witness ==
    /\ cur.kind = "voice"
    /\ cur.checked
    /\ cur.on_cooldown
    /\ user_last_request[cur.user] < now

\* The size guard has rejected the request being handled.
Oversize == cur.checked /\ ~cur.on_cooldown /\ cur.file_size > MAX_FILE_SIZE

\* C11 as stated: a media request rejected as too large has recorded its
\* timestamp: the user's last-request time is the time of the request.
C11_OversizeIsMarked ==
    cur.pc = "too_big" => (cur.marked /\ user_last_request[cur.user] = now)

\* C11 as amended: the request is recorded after the size guard.  A request
\* that passed the cooldown check and was rejected as too large has recorded
\* nothing: every last-request time is as it was and a repeated request of the
\* same kind passes the cooldown check again.  A request that passed the
\* cooldown check and the size guard has recorded its time.
C11_OversizeIsNotMarked ==
    /\ Oversize
          => /\ ~cur.marked
             /\ user_last_request = req0.last
             /\ ~is_user_on_cooldown(user_last_request, now, cur.user, cur.kind)
    /\ (cur.checked /\ ~cur.on_cooldown /\ ~Oversize)
          => /\ cur.marked
             /\ user_last_request[cur.user] > req0.last[cur.user]

\* The second update is an oversize photo answered with the too-large reply,
\* and no request has been recorded so far.
C11_Witness ==
    /\ updates = 2
    /\ cur.kind = "photo"
    /\ cur.pc = "done"
    /\ cur.reply = "too_big"
    /\ \A u \in Users : user_last_request[u] = DefaultLastRequest

C13_OversizeCreatesNothing ==
    /\ MAX_FILE_SIZE = 20971520
    /\ cur.file_size > MAX_FILE_SIZE
          => /\ cur.pc \in {"too_big", "except", "finally", "done"}
             /\ ~cur.file_path
             /\ cur.gemini_file = None
             /\ cur.nUpload = 0 /\ cur.nInfer = 0
             /\ cur.nRead = 0 /\ cur.nInsert = 0
             /\ history = req0.history
    /\ (cur.kind \in MediaKinds /\ cur.checked /\ ~cur.on_cooldown
                               /\ cur.file_size <= MAX_FILE_SIZE)
          => /\ cur.pc # "too_big"
             /\ cur.reply # "too_big"
             /\ cur.marked

\* An oversize video note was answered with the too-large reply and the
\* handler has ended.
C13_WitnessOversize ==
    /\ cur.kind = "video"
    /\ cur.file_size = MAX_FILE_SIZE + 1
    /\ cur.reply = "too_big"
    /\ cur.pc = "done"

\* C14: once the file of a voice or video-note request is in state FAILED, the
\* request makes no inference call, reads and inserts no history turn, goes
\* through the except clause, where the failure reply is sent (delivered, or
\* the send raises), and on to the finally clause: when the handler has ended,
\* delete_file was called for the file (unless unlink raised before it).
C14_FailedAbortsBeforeInference ==
    (cur.kind \in AssetKinds /\ cur.gemini_file = "FAILED")
        => /\ cur.pc \in {"except", "finally", "done"}
           /\ cur.nInfer = 0 /\ cur.infer = "none"
           /\ cur.nRead = 0 /\ cur.nInsert = 0
           /\ history = req0.history
           /\ cur.pc = "except" => cur.reply = "none"
           /\ cur.pc \in {"finally", "done"}
                 => cur.reply \in {"failure", "failure_raised"}
           /\ (cur.pc = "done" /\ cur.unlink # "raised")
                 => (cur.nDelete = 1 /\ ~temp_file)

\* A video note whose file ended in state FAILED after polling: the failure
\* reply was delivered and the handler has ended after its cleanup.
C14_Witness ==
    /\ cur.kind = "video"
    /\ cur.gemini_file = "FAILED"
    /\ cur.pc = "done"
    /\ cur.reply = "failure"
    /\ cur.nDelete = 1
    /\ now > StartTime

\* C15: while a media request waits between two status polls, the update of
\* another user can be taken up: some handler can start.
C15_OthersProgressWhilePolling ==
    (cur.pc = "sleep" /\ updates < MaxUpdates) => ENABLED DispatchStep

\* C16: a voice or video-note handler that was cancelled after file_path was
\* assigned (during the download, the inference call, the sending of a reply)
\* ends through its finally clause: when it has ended the temporary file is not
\* on disk and delete_file was called once if a file object was obtained and
\* not at all otherwise (unless unlink itself raised).
C16_CancelledStillCleansUp ==
    (cur.cancelled /\ cur.kind \in AssetKinds)
        => /\ cur.pc \in {"except", "finally", "done"}
           /\ (cur.pc = "done" /\ cur.file_path /\ cur.unlink # "raised")
                 => /\ ~temp_file
                    /\ cur.nDelete = IF cur.gemini_file # None THEN 1 ELSE 0

\* A voice handler was cancelled while it awaited the inference call, with the
\* file uploaded and ready, and has ended.
C16_Witness ==
    /\ cur.cancelled
    /\ cur.kind = "voice"
    /\ cur.pc = "done"
    /\ cur.file_path
    /\ cur.gemini_file = "ACTIVE"
    /\ cur.nRead = 1
    /\ cur.nInfer = 0
    /\ cur.reply = "none"
    /\ cur.nDelete = 1
    /\ ~temp_file

\* C17: if the process crashes while a media request holds a temporary file or
\* an uploaded file, then after the restart those files are eventually deleted.
C17_CrashedResourcesAreDeleted ==
    (cur.pc = "crashed" /\ (orphaned.temp \/ orphaned.remote))
        ~> (~orphaned.temp /\ ~orphaned.remote)

\* C18: a clear_history(U), from the settings menu or from /start, leaves no
\* turn of U, so that get_history(U) is empty, and changes nothing else: the
\* stored limits, the turns of every other user and the last-request times are
\* as before.
C18_ClearHistoryFrame ==
    [][(cur.pc = "idle" /\ cur'.kind \in {"settings_clear", "start"})
          => /\ UserRows(history', cur'.user) = <<>>
             /\ get_history(history', user_settings', cur'.user) = {<<>>}
             /\ user_settings' = user_settings
             /\ \A v \in Users \ {cur'.user} :
                   UserRows(history', v) = UserRows(history, v)
             /\ user_last_request' = user_last_request]_vars

\* The settings menu's clear button was pressed by a user who had turns stored.
C18_Witness ==
    /\ cur.kind = "settings_clear"
    /\ cur.pc = "done"
    /\ UserRows(req0.history, cur.user) # <<>>
    /\ UserRows(history, cur.user) = <<>>

\* C19: every user's effective history limit is a positive integer no greater
\* than 20.
C19_LimitInRange ==
    \A u \in Users : get_history_limit(user_settings, u) \in 1..20

\* The roles of a user's turns, in insertion order.
Roles(h, user_id) ==
    LET rows == UserRows(h, user_id) IN [i \in 1..Len(rows) |-> rows[i].role]

\* Every model turn comes right after a user turn.
PairsAdjacent(roles) ==
    \A i \in 1..Len(roles) :
        roles[i] = "model" => (i > 1 /\ roles[i - 1] = "user")

C21_OnlyReadyAssetInferred ==
    (cur.kind \in AssetKinds /\ cur.nInfer > 0)
        => (cur.gemini_file = "ACTIVE" /\ cur.nInfer = 1)

\* A handler passes its cooldown check and records the request in this step.
Admission == cur.pc = "idle" /\ cur'.checked /\ cur'.marked

\* C22: a request is admitted only when the cooldown of its category has
\* passed since its user's last-request time, and in the same step that time
\* becomes the time of the admission; no step moves a last-request time back;
\* an upload or an inference call is made only for an admitted request.  So the
\* admission times of two consecutive admitted requests of a user differ by at
\* least the cooldown of the later one's category.
C22_AdmissionsAreSpaced ==
    [][/\ \A u \in Users :
             /\ user_last_request'[u] >= user_last_request[u]
             /\ user_last_request'[u] <= now'
       /\ Admission
             => /\ now - user_last_request[cur'.user] >= COOLDOWNS[cur'.kind]
                /\ ~cur'.on_cooldown
                /\ user_last_request'[cur'.user] = now
       /\ (cur'.nUpload > cur.nUpload \/ cur'.nInfer > cur.nInfer)
             => /\ cur.checked /\ ~cur.on_cooldown /\ cur.marked
                /\ cur'.user = cur.user
                /\ user_last_request[cur.user] - req0.last[cur.user]
                      >= COOLDOWNS[cur.kind]]_vars

\* The inference call of a text request admitted 3 seconds after the same
\* user's request before it was recorded.
C22_Witness ==
    /\ cur.kind = "text"
    /\ cur.checked
    /\ cur.marked
    /\ cur.nInfer = 1
    /\ req0.last[cur.user] = StartTime
    /\ user_last_request[cur.user] = StartTime + 3

\* The user on whose behalf a step is taken: the user of the update that the
\* step takes up, or of the update being handled.
ActingUser == IF cur.pc = "idle" THEN cur'.user ELSE cur.user

\* C23: no step taken on behalf of a user (a step of a message handler, a
\* change of the limit, a clear, /start) changes the stored turns, the history
\* limit, the result of get_history or the last-request time of another user.
C23_OtherUsersUntouched ==
    [][\A v \in Users \ {ActingUser} :
          /\ UserRows(history', v) = UserRows(history, v)
          /\ (v \in DOMAIN user_settings') = (v \in DOMAIN user_settings)
          /\ get_history_limit(user_settings', v) = get_history_limit(user_settings, v)
          /\ get_history(history', user_settings', v)
                = get_history(history, user_settings, v)
          /\ user_last_request'[v] = user_last_request[v]]_vars

\* User 42 has set a limit while user 43 has another limit stored.
C23_Witness ==
    /\ cur.kind = "set_limit"
    /\ cur.user = 42
    /\ 43 \in DOMAIN user_settings
    /\ user_settings[43] # user_settings[42]

\* C24: when a handler has sent its failure reply for a request, the history
\* table is as it was when the request arrived.
C24_FailureReplyMeansNoTurns ==
    cur.reply \in {"failure", "failure_raised"} => history = req0.history

\* The cooldowns as the specification lists them.
ListedCooldown(command_type) ==
    CASE command_type = "text" -> 3
      [] command_type = "fact" -> 5
      [] command_type = "photo" -> 10
      [] command_type = "voice" -> 15
      [] command_type = "video" -> 20
      [] command_type = "settings" -> 2
      [] OTHER -> 2

\* C9: the check rejects exactly when the time since the recorded request time
\* is less than the listed cooldown of the command type; the recorded time is
\* the time of the last mark (the default while there was none), so the check
\* has not changed it.
C9_RejectsBelowCooldown ==
    /\ admit.called
          => admit.on_cooldown
                = (admit.t - user_last_request[admit.user]
                      < ListedCooldown(admit.command_type))
    /\ \A u \in Users :
          user_last_request[u] =
              IF marked_at[u] = Never THEN DefaultLastRequest ELSE marked_at[u]

\* A check with a command type that is no key of COOLDOWNS, exactly 2 seconds
\* after the mark, admitted.
C9_Witness ==
    /\ admit.called
    /\ admit.command_type = "other"
    /\ marked_at[admit.user] # Never
    /\ admit.t - user_last_request[admit.user] = 2
    /\ ~admit.on_cooldown

\* C10 as stated: a call that follows a call with the same arguments by less
\* than the cooldown, with no mark in between, rejects.
C10_SecondCallRejects ==
    (admit.called /\ admit.repeated) => admit.on_cooldown

\* C10 as amended: a call rejects exactly when the user was marked less than the
\* cooldown before it, and admits when the user was never marked or the
\* cooldown has elapsed since the last mark.
C10_RejectsWithinCooldownOfMark ==
    admit.called
        => admit.on_cooldown
              = (/\ marked_at[admit.user] # Never
                 /\ admit.t - marked_at[admit.user] < CooldownPeriod(admit.command_type))

\* User 42, voice: 16 seconds after the mark the call admits.
C10_Witness ==
    /\ admit.called
    /\ admit.user = 42
    /\ admit.command_type = "voice"
    /\ marked_at[42] # Never
    /\ admit.t - marked_at[42] = 16
    /\ ~admit.on_cooldown

====
